---- MODULE Spec2Model ----
(***************************************************************************)
(* Camera monitor (src/main.py): per-camera stream workers that count      *)
(* motion events in camera_alerts and enqueue alert messages, the delivery *)
(* worker that drains message_queue with retry, the periodic reporter that *)
(* logs and resets the counters, and the main thread that loads the        *)
(* persistent queue, starts the threads and saves the queue on Ctrl+C.     *)
(*                                                                         *)
(* Threads interleave at every access to shared data (camera_alerts,       *)
(* message_queue, the queue file): one action per such access.             *)
(* Timestamps are whole seconds; a datetime is a positive integer.         *)
(***************************************************************************)
EXTENDS Integers, Sequences, FiniteSets, TLC

\* ---------------------------------------------------------------- bounds
\* Qualifying (VideoMotion/Start) events processed in one run, all cameras.
MaxEvents == 2
\* Messages in the queue file found at process start.
MaxPreload == 1
\* Lines received between two boundary lines, the boundary line not counted.
MaxBuf == 2

\* ------------------------------------------------------------- constants
\* Python's None in a last_alert_time field.
None == -1
\* Seconds in a day: timedelta.seconds is the remainder below one day.
DaySeconds == 86400

\* CAMERA_STREAMS, in configuration (dict insertion) order.
CamOrder == <<"outdoor", "customer">>
Cameras == {CamOrder[i] : i \in 1..Len(CamOrder)}

\* The gap thresholds of parse_event, in the order they are tested.
Windows == <<10, 30, 60>>

GapKey(w) ==
  CASE w = 1 -> "gap_10_sec"
    [] w = 2 -> "gap_30_sec"
    [] w = 3 -> "gap_60_sec"

LastKey(w) ==
  CASE w = 1 -> "last_alert_time_gap_10_sec"
    [] w = 2 -> "last_alert_time_gap_30_sec"
    [] w = 3 -> "last_alert_time_gap_60_sec"

\* The order in which reset_alert_counts assigns a camera's fields.
ResetOrder ==
  << "simple_count", "gap_10_sec", "gap_30_sec", "gap_60_sec",
     "last_alert_time_gap_10_sec", "last_alert_time_gap_30_sec",
     "last_alert_time_gap_60_sec" >>

\* The value reset_alert_counts assigns to field number k.
ResetValue(k) == IF k <= 4 THEN 0 ELSE None

\* The order in which log_alert_counts reads a camera's counters.
LogOrder == << "simple_count", "gap_10_sec", "gap_30_sec", "gap_60_sec" >>

\* Seconds between two consecutive calls of datetime.now(): below every
\* threshold, at the 30 s and the 60 s threshold, and a day and 5 s.
Gaps == {9, 30, 60, 86405}

\* The parse_event outcomes of a record handed over at a boundary.
Records == {"nomatch", "baddata", "other", "motion"}

\* What a line of the stream holds besides the boundary marker: nothing,
\* text the pattern of parse_event does not match (a blank), a
\* Code=...;action=...;index=...;data={...} record that is VideoMotion/Start
\* ("motion"), one with another code or action ("other"), one whose data
\* json cannot decode ("baddata"), or bytes that are not UTF-8.
Bodies == {"", " ", "motion", "other", "baddata", "undecodable"}

\* The lines response.iter_lines() can yield. mark: the line contains
\* "--myboundary".
Lines == {[body |-> b, mark |-> m] : b \in Bodies, m \in BOOLEAN}

\* `if line:` is false: the line is b"".
IsEmptyLine(l) == l.body = "" /\ ~l.mark

\* line.decode("utf-8") returns.
Decodable(l) == l.body # "undecodable"

\* "--myboundary" in line.decode("utf-8").
HasMarker(l) == l.mark

\* buffer += line_decoded + "\n", under `if line:`. The buffer is the
\* sequence of the lines appended, each standing for the line and its "\n".
Appended(buf, l) == IF IsEmptyLine(l) THEN buf ELSE Append(buf, l)

HoldsRecord(l) == l.body \in {"motion", "other", "baddata"}

\* parse_event(buffer) up to the test of code and action. re.search finds
\* the first Code=...;data={ of the buffer and its data group runs to the
\* last } of the buffer (greedy, DOTALL): with a second record in the
\* buffer the group is not one JSON value and json.loads raises
\* JSONDecodeError.
Outcome(rec) ==
  LET r == SelectSeq(rec, HoldsRecord)
  IN IF r = << >> THEN "nomatch"
     ELSE IF Len(r) > 1 THEN "baddata"
     ELSE r[1].body

\* Mutant of Qualifies: the test of action == "Start" is left out.
QualifiesAnyAction(rec) == Outcome(rec) \in {"motion", "other"}

\* parse_event goes on to count the record and to build a message.
Qualifies(rec) == Outcome(rec) = "motion"

\* ---------------------------------------------------------- message text
\* A message is its text: the sequence of its code points. No message of
\* the program is empty.
NoMessage == << >>

\* "\ud83d\udea8", the first two characters of the f-string of parse_event:
\* in Python source each \uXXXX is one character, here two surrogates that
\* do not make a pair.
HighSurrogate == 55357

LowSurrogate == 57000

\* The message parse_event builds: the two surrogates and the rest of the
\* text, for which one character k stands (the time and the camera).
EventText(k) == << HighSurrogate, LowSurrogate, 48 + k >>

\* The string json.dump writes for a str (ensure_ascii): an ASCII character
\* as it is, another character of the basic plane, a lone surrogate
\* included, as one \uXXXX escape, a character beyond it as the two escapes
\* of its surrogate pair.
RECURSIVE JsonString(_)
JsonString(s) ==
  IF s = << >> THEN << >>
  ELSE LET c == Head(s)
           w == IF c < 128 THEN << [esc |-> FALSE, u |-> c] >>
                ELSE IF c < 65536 THEN << [esc |-> TRUE, u |-> c] >>
                ELSE << [esc |-> TRUE, u |-> 55296 + ((c - 65536) \div 1024)],
                        [esc |-> TRUE, u |-> 56320 + ((c - 65536) % 1024)] >>
       IN w \o JsonString(Tail(s))

\* The str json.load reads from such a string: an escape of a high
\* surrogate followed by an escape of a low surrogate is read as the one
\* character the pair encodes, anything else as itself.
RECURSIVE JsonParsed(_)
JsonParsed(t) ==
  IF t = << >> THEN << >>
  ELSE IF /\ Len(t) >= 2
          /\ t[1].esc /\ t[1].u >= 55296 /\ t[1].u <= 56319
          /\ t[2].esc /\ t[2].u >= 56320 /\ t[2].u <= 57343
  THEN << 65536 + (t[1].u - 55296) * 1024 + (t[2].u - 56320) >>
         \o JsonParsed(SubSeq(t, 3, Len(t)))
  ELSE << t[1].u >> \o JsonParsed(Tail(t))

\* json.dump(list, file) and json.load(file) of a list of str.
JsonDump(q) == [i \in 1..Len(q) |-> JsonString(q[i])]

JsonLoad(f) == [i \in 1..Len(f) |-> JsonParsed(f[i])]

\* (now - last).seconds for datetimes in whole seconds.
TimedeltaSeconds(now, last) == (now - last) % DaySeconds

\* The initial value of a camera's entry in camera_alerts.
InitialAlerts ==
  [ simple_count |-> 0, gap_10_sec |-> 0, gap_30_sec |-> 0, gap_60_sec |-> 0,
    last_alert_time_gap_10_sec |-> 0, last_alert_time_gap_30_sec |-> 0,
    last_alert_time_gap_60_sec |-> 0 ]

\* A block of the alert log before any counter is written to it: per camera,
\* its "00 sec gap" value.
EmptyBlock == [c \in Cameras |-> 0]

VARIABLES
  camera_alerts,   \* camera -> its counters and last_alert_time fields
  message_queue,   \* the in-memory FIFO (queue.Queue)
  queue_file,      \* QUEUE_FILE: [st, msgs], msgs the strings written
  alert_log,       \* ALERT_LOG_FILE, which is only appended to: per camera,
                   \*   the total of the "00 sec gap" values written so far
  mpc,             \* main thread position
  cpc,             \* camera -> position of its listen_to_stream thread
  now,             \* camera -> `now` of the parse_event in progress
  tmp,             \* camera -> value read by the `+= 1` in progress
  win,             \* camera -> gap window (1..3) parse_event is at
  msg,             \* camera -> message being produced
  wpc,             \* delivery worker position
  wmsg,            \* message the delivery worker holds (NoMessage: none)
  rpc,             \* reporter position
  rcam,            \* reporter: index in CamOrder of the camera it is at
  rfield,          \* reporter: index of the field it is at
  rblock,          \* reporter: the block being written by log_alert_counts
  clock,           \* wall clock, whole seconds
  enq,             \* history: messages put into message_queue, in order
  sent,            \* history: messages sent successfully, in order
  tried,           \* history: the last send attempt: its message, how many
                   \*   messages had been sent before it, and its outcome
  events,          \* history: camera -> qualifying events processed
  pre,             \* history: camera -> its entry when parse_event began
                   \*   counting (forgotten at a reset write to the camera)
  prev,            \* history: camera -> time of the qualifying event before
                   \*   the current one (None: there is none, or a reset
                   \*   write to the camera came in between)
  clean,           \* history: camera -> no reset write to it since then
  lastInc,         \* history: camera -> window -> time of the counter's last
                   \*   increment since the last reset write to the camera
  atPut,           \* history: message_queue as the latest put left it
  buffer,          \* camera -> `buffer` of listen_to_stream
  since,           \* history: camera -> the lines received on this
                   \*   connection since the boundary line before the last
                   \*   line received, that line included
  handed,          \* history: camera -> the record parse_event was called
                   \*   with for the last line received (<< >>: it was not)
  fresh            \* history: camera -> "reset": reset_alert_counts has
                   \*   written all its fields and no event began since;
                   \*   "event": the event counted began in that state and
                   \*   no reset write came since; "no": otherwise

vars ==
  << camera_alerts, message_queue, queue_file, alert_log, mpc, cpc, now, tmp,
     win, msg, wpc, wmsg, rpc, rcam, rfield, rblock, clock, enq, sent, tried,
     events, pre, prev, clean, lastInc, atPut, buffer, since, handed, fresh >>

aggVars ==
  << camera_alerts, now, tmp, win, msg, clock, events, pre, prev, clean,
     lastInc, fresh >>
framerVars == << buffer, since, handed >>
queueVars == << message_queue, enq, atPut >>
workerVars == << wpc, wmsg, sent, tried >>
reporterVars == << rpc, rcam, rfield, rblock, alert_log >>

Sum(f) ==
  LET RECURSIVE S(_)
      S(D) == IF D = {} THEN 0
              ELSE LET x == CHOOSE y \in D : TRUE IN f[x] + S(D \ {x})
  IN S(DOMAIN f)

TotalEvents == Sum(events)

\* A message in the queue a previous run saved: as parse_event built it in
\* that run, or as that run loaded it from the file of the run before.
SavedForms(k) == { EventText(k), JsonParsed(JsonString(EventText(k))) }

\* The queues a previous run can have saved.
SavedQueues ==
  UNION { { q \in [1..n -> UNION { SavedForms(k) : k \in 1..MaxPreload }] :
              \A i \in 1..n : q[i] \in SavedForms(i) } : n \in 0..MaxPreload }

\* A file that holds a JSON number or null.
ScalarFile == [st |-> "scalar", msgs |-> << >>]

\* A file that holds a JSON object; msgs: its keys, here the one key "k".
ObjectFile == [st |-> "object", msgs |-> << JsonString(<< 107 >>) >>]

\* The queue files a process can find at start: none, one json cannot
\* decode, one that holds JSON which is not an array, or the array a
\* previous run saved.
StartFiles ==
  { [st |-> "absent", msgs |-> << >>], [st |-> "garbage", msgs |-> << >>],
    ScalarFile, ObjectFile }
  \cup { [st |-> "array", msgs |-> JsonDump(q)] : q \in SavedQueues }

Init ==
  /\ camera_alerts = [c \in Cameras |-> InitialAlerts]
  /\ message_queue = << >>
  /\ queue_file \in StartFiles
  /\ alert_log = [c \in Cameras |-> 0]
  /\ mpc = "load"
  /\ cpc = [c \in Cameras |-> "unstarted"]
  /\ now = [c \in Cameras |-> 0]
  /\ tmp = [c \in Cameras |-> 0]
  /\ win = [c \in Cameras |-> 1]
  /\ msg = [c \in Cameras |-> NoMessage]
  /\ wpc = "unstarted"
  /\ wmsg = NoMessage
  /\ rpc = "unstarted"
  /\ rcam = 1
  /\ rfield = 1
  /\ rblock = EmptyBlock
  /\ clock = 1
  /\ enq = << >>
  /\ sent = << >>
  /\ tried = [msg |-> NoMessage, nsent |-> 0, ok |-> TRUE]
  /\ events = [c \in Cameras |-> 0]
  /\ pre = [c \in Cameras |-> InitialAlerts]
  /\ prev = [c \in Cameras |-> None]
  /\ clean = [c \in Cameras |-> TRUE]
  /\ lastInc = [c \in Cameras |-> [w \in 1..Len(Windows) |-> None]]
  /\ atPut = << >>
  /\ buffer = [c \in Cameras |-> << >>]
  /\ since = [c \in Cameras |-> << >>]
  /\ handed = [c \in Cameras |-> << >>]
  /\ fresh = [c \in Cameras |-> "no"]

Alive == mpc # "exited"

\* ------------------------------------------------------------ queue file
\* open(QUEUE_FILE, "w"): the file exists and is empty.
Truncated == [st |-> "empty", msgs |-> << >>]

ArrayFile(snapshot) == [st |-> "array", msgs |-> JsonDump(snapshot)]

GarbageFile == [st |-> "garbage", msgs |-> << >>]

\* json.dump(list(message_queue.queue), file) and the close that flushes it.
\* The handle writes from offset 0 of the file it truncated when it opened
\* it. If the file is no longer empty, another handle has written since:
\* the bytes of this write replace the start of that content, and what is
\* left of it after them, if anything, makes the file undecodable.
DumpResults(file, snapshot) ==
  IF file.st = "empty"
  THEN {ArrayFile(snapshot)}
  ELSE {ArrayFile(snapshot), GarbageFile}

\* ------------------------------------------------------------------ main
\* load_persistent_queue: `for message in messages` puts every element of
\* an array, in order, and every key of an object; a missing file or one
\* json cannot decode (JSONDecodeError is caught) leaves the queue empty.
LoadedMessages(file) ==
  IF file.st \in {"array", "object"} THEN JsonLoad(file.msgs) ELSE << >>

\* load_persistent_queue called by main. Over a number or null the for
\* statement raises TypeError, which load_persistent_queue does not catch:
\* main's `except Exception` prints it and main goes to input() with no
\* thread started.
Load ==
  /\ mpc = "load"
  /\ message_queue' = message_queue \o LoadedMessages(queue_file)
  /\ enq' = enq \o LoadedMessages(queue_file)
  /\ mpc' = IF queue_file.st = "scalar" THEN "exit_wait" ELSE "start"
  /\ UNCHANGED << atPut, queue_file, alert_log, cpc, wpc, wmsg, sent, tried, rpc, rcam,
                  rfield, rblock, aggVars, framerVars >>

\* The three Thread(...).start() groups of main.
StartThreads ==
  /\ mpc = "start"
  /\ cpc' = [c \in Cameras |-> "connect"]
  /\ wpc' = "get"
  /\ rpc' = "log"
  /\ mpc' = "running"
  /\ UNCHANGED << queue_file, alert_log, wmsg, sent, tried, rcam, rfield, rblock,
                  aggVars, queueVars, framerVars >>

\* Ctrl+C while main sleeps in its heartbeat loop.
Interrupt ==
  /\ mpc = "running"
  /\ mpc' = "shut_open"
  /\ UNCHANGED << queue_file, cpc, aggVars, queueVars, workerVars, reporterVars,
                  framerVars >>

\* save_persistent_queue called by the KeyboardInterrupt handler: open.
ShutOpen ==
  /\ mpc = "shut_open"
  /\ queue_file' = Truncated
  /\ mpc' = "shut_dump"
  /\ UNCHANGED << cpc, aggVars, queueVars, workerVars, reporterVars,
                  framerVars >>

\* save_persistent_queue called by the KeyboardInterrupt handler: dump.
ShutDump ==
  /\ mpc = "shut_dump"
  /\ queue_file' \in DumpResults(queue_file, message_queue)
  /\ mpc' = "exit_wait"
  /\ UNCHANGED << cpc, aggVars, queueVars, workerVars, reporterVars,
                  framerVars >>

\* input() returns; the process ends and its daemon threads with it.
Exit ==
  /\ mpc = "exit_wait"
  /\ mpc' = "exited"
  /\ UNCHANGED << queue_file, cpc, aggVars, queueVars, workerVars, reporterVars,
                  framerVars >>

\* --------------------------------------------------------- camera worker
\* requests.get(...) and raise_for_status() succeed; buffer = "".
Connect(c) ==
  /\ Alive /\ cpc[c] = "connect"
  /\ cpc' = [cpc EXCEPT ![c] = "stream"]
  /\ buffer' = [buffer EXCEPT ![c] = << >>]
  /\ since' = [since EXCEPT ![c] = << >>]
  /\ handed' = [handed EXCEPT ![c] = << >>]
  /\ UNCHANGED << queue_file, mpc, aggVars, queueVars, workerVars, reporterVars >>

\* requests.get(...) or raise_for_status() raises RequestException.
ConnectFail(c) ==
  /\ Alive /\ cpc[c] = "connect"
  /\ cpc' = [cpc EXCEPT ![c] = "backoff"]
  /\ UNCHANGED << queue_file, mpc, aggVars, queueVars, workerVars, reporterVars,
                  framerVars >>

\* iter_lines() raises RequestException while streaming.
StreamError(c) ==
  /\ Alive /\ cpc[c] = "stream"
  /\ cpc' = [cpc EXCEPT ![c] = "backoff"]
  /\ UNCHANGED << queue_file, mpc, aggVars, queueVars, workerVars, reporterVars,
                  framerVars >>

\* iter_lines() is exhausted: the for loop ends and `while True` goes round.
StreamEnd(c) ==
  /\ Alive /\ cpc[c] = "stream"
  /\ cpc' = [cpc EXCEPT ![c] = "connect"]
  /\ UNCHANGED << queue_file, mpc, aggVars, queueVars, workerVars, reporterVars,
                  framerVars >>

\* time.sleep(10) of the except branch returns.
BackoffWake(c) ==
  /\ Alive /\ cpc[c] = "backoff"
  /\ cpc' = [cpc EXCEPT ![c] = "connect"]
  /\ UNCHANGED << queue_file, mpc, aggVars, queueVars, workerVars, reporterVars,
                  framerVars >>

\* The lines received since the last boundary line, once l is received.
Received(c, l) ==
  IF since[c] # << >> /\ HasMarker(since[c][Len(since[c])])
  THEN << l >>
  ELSE Append(since[c], l)

\* One round of `for line in response.iter_lines()` for a line without the
\* marker: it is appended unless it is empty.
Line(c, l) ==
  /\ Alive /\ cpc[c] = "stream"
  /\ Decodable(l) /\ ~HasMarker(l)
  /\ Len(Received(c, l)) <= MaxBuf
  /\ buffer' = [buffer EXCEPT ![c] = Appended(@, l)]
  /\ since' = [since EXCEPT ![c] = Received(c, l)]
  /\ handed' = [handed EXCEPT ![c] = << >>]
  /\ UNCHANGED << cpc, queue_file, mpc, aggVars, queueVars, workerVars,
                  reporterVars >>

\* A line that is not UTF-8: line.decode("utf-8") raises UnicodeDecodeError,
\* which is no RequestException, and the thread ends.
BadLine(c, l) ==
  /\ Alive /\ cpc[c] = "stream"
  /\ ~Decodable(l)
  /\ cpc' = [cpc EXCEPT ![c] = "dead"]
  /\ since' = [since EXCEPT ![c] = Received(c, l)]
  /\ handed' = [handed EXCEPT ![c] = << >>]
  /\ UNCHANGED << buffer, queue_file, mpc, aggVars, queueVars, workerVars,
                  reporterVars >>

\* A boundary line whose record parse_event does not count: no match, data
\* json cannot decode, or a (code, action) other than VideoMotion/Start.
\* parse_event returns None and the buffer is cleared.
BoundaryNoEvent(c) ==
  /\ Alive /\ cpc[c] = "stream"
  /\ \E l \in Lines :
       /\ Decodable(l) /\ HasMarker(l)
       /\ Outcome(Appended(buffer[c], l)) \in Records
       /\ ~Qualifies(Appended(buffer[c], l))
       /\ handed' = [handed EXCEPT ![c] = Appended(buffer[c], l)]
       /\ since' = [since EXCEPT ![c] = Received(c, l)]
  /\ buffer' = [buffer EXCEPT ![c] = << >>]
  /\ UNCHANGED << cpc, queue_file, mpc, aggVars, queueVars, workerVars,
                  reporterVars >>

\* The message parse_event builds for the n-th qualifying event of the run.
MessageOf(n) == EventText(MaxPreload + n)

\* A boundary line that completes a VideoMotion/Start record: the line is
\* appended, parse_event(buffer) is called, now = datetime.now() and the
\* read of camera_data["simple_count"] += 1.
\* d: the seconds since the previous call of datetime.now().
ParseBeginAt(c, d) ==
  /\ Alive /\ cpc[c] = "stream"
  /\ TotalEvents < MaxEvents
  /\ \E l \in Lines :
       /\ Decodable(l) /\ HasMarker(l)
       /\ Qualifies(Appended(buffer[c], l))
       /\ buffer' = [buffer EXCEPT ![c] = Appended(@, l)]
       /\ handed' = [handed EXCEPT ![c] = Appended(buffer[c], l)]
       /\ since' = [since EXCEPT ![c] = Received(c, l)]
  /\ fresh' = [fresh EXCEPT ![c] = IF @ = "reset" THEN "event" ELSE "no"]
  /\ clock' = clock + d
  /\ now' = [now EXCEPT ![c] = clock + d]
  /\ tmp' = [tmp EXCEPT ![c] = camera_alerts[c].simple_count]
  /\ events' = [events EXCEPT ![c] = @ + 1]
  /\ msg' = [msg EXCEPT ![c] = MessageOf(TotalEvents + 1)]
  /\ pre' = [pre EXCEPT ![c] = camera_alerts[c]]
  /\ prev' = [prev EXCEPT ![c] = IF events[c] = 0 \/ ~clean[c] THEN None
                                 ELSE now[c]]
  /\ clean' = [clean EXCEPT ![c] = TRUE]
  /\ cpc' = [cpc EXCEPT ![c] = "simple_write"]
  /\ UNCHANGED << camera_alerts, win, lastInc, queue_file, mpc, queueVars,
                  workerVars, reporterVars >>

\* parse_event uses a time only in differences with an earlier `now`, so
\* the time of the first call of datetime.now() is fixed.
ParseBegin(c) ==
  \E d \in IF TotalEvents = 0 THEN {Windows[3]} ELSE Gaps : ParseBeginAt(c, d)

\* The write of camera_data["simple_count"] += 1.
IncSimple(c) ==
  /\ Alive /\ cpc[c] = "simple_write"
  /\ camera_alerts' = [camera_alerts EXCEPT ![c].simple_count = tmp[c] + 1]
  /\ tmp' = [tmp EXCEPT ![c] = 0]
  /\ win' = [win EXCEPT ![c] = 1]
  /\ cpc' = [cpc EXCEPT ![c] = "gap_test"]
  /\ UNCHANGED << now, msg, clock, events, pre, prev, clean, lastInc, queue_file,
                  mpc, queueVars, workerVars, reporterVars, fresh, framerVars >>

\* Where parse_event goes after window w: the next window, or the return of
\* the message and `if message:` in listen_to_stream.
AfterWindow(c, w) ==
  IF w < Len(Windows)
  THEN /\ win' = [win EXCEPT ![c] = w + 1]
       /\ cpc' = [cpc EXCEPT ![c] = "gap_test"]
  ELSE /\ win' = [win EXCEPT ![c] = 1]
       /\ cpc' = [cpc EXCEPT ![c] = "put"]

\* Whether a last_alert_time value is a datetime (not None, not the int 0).
IsDatetime(v) == v > 0

\* Mutant of GapElapsed: the comparison is off by one second.
GapElapsedEarly(nowv, last, threshold) ==
  TimedeltaSeconds(nowv, last) >= threshold - 1

\* (now - last).seconds >= threshold, for a datetime last.
GapElapsed(nowv, last, threshold) == TimedeltaSeconds(nowv, last) >= threshold

\* The read of the counter in camera_data["gap_N_sec"] += 1.
GapRead(c, w) ==
  /\ cpc' = [cpc EXCEPT ![c] = "gap_write"]
  /\ win' = win
  /\ tmp' = [tmp EXCEPT ![c] = camera_alerts[c][GapKey(w)]]

\* The first operand of the `if` of window win[c]: last is None.
GapTest(c) ==
  /\ Alive /\ cpc[c] = "gap_test"
  /\ LET w == win[c]
     IN IF camera_alerts[c][LastKey(w)] = None
        THEN GapRead(c, w)
        ELSE /\ cpc' = [cpc EXCEPT ![c] = "gap_elapsed"]
             /\ UNCHANGED << win, tmp >>
  /\ UNCHANGED << camera_alerts, now, msg, clock, events, pre, prev, clean, lastInc,
                  queue_file, mpc, queueVars, workerVars, reporterVars,
                  fresh, framerVars >>

\* The second operand, which reads the field again. The initial value of the
\* field is the int 0, and a reset may have stored None since the first
\* read: datetime - int and datetime - None raise TypeError, which neither
\* parse_event nor listen_to_stream catches, and the thread ends.
GapCompare(c) ==
  /\ Alive /\ cpc[c] = "gap_elapsed"
  /\ LET w == win[c]
         last == camera_alerts[c][LastKey(w)]
     IN IF ~IsDatetime(last)
        THEN /\ cpc' = [cpc EXCEPT ![c] = "dead"]
             /\ UNCHANGED << win, tmp >>
        ELSE IF GapElapsed(now[c], last, Windows[w])
        THEN GapRead(c, w)
        ELSE /\ AfterWindow(c, w)
             /\ tmp' = tmp
  /\ UNCHANGED << camera_alerts, now, msg, clock, events, pre, prev, clean, lastInc,
                  queue_file, mpc, queueVars, workerVars, reporterVars,
                  fresh, framerVars >>

\* The write of camera_data["gap_N_sec"] += 1.
GapWrite(c) ==
  /\ Alive /\ cpc[c] = "gap_write"
  /\ camera_alerts' = [camera_alerts EXCEPT ![c][GapKey(win[c])] = tmp[c] + 1]
  /\ lastInc' = [lastInc EXCEPT ![c][win[c]] = now[c]]
  /\ tmp' = [tmp EXCEPT ![c] = 0]
  /\ cpc' = [cpc EXCEPT ![c] = "gap_last"]
  /\ UNCHANGED << now, win, msg, clock, events, pre, prev, clean, queue_file, mpc,
                  queueVars, workerVars, reporterVars, fresh, framerVars >>

\* camera_data["last_alert_time_gap_N_sec"] = now.
GapSetLast(c) ==
  /\ Alive /\ cpc[c] = "gap_last"
  /\ camera_alerts' = [camera_alerts EXCEPT ![c][LastKey(win[c])] = now[c]]
  /\ AfterWindow(c, win[c])
  /\ UNCHANGED << now, tmp, msg, clock, events, pre, prev, clean, lastInc, queue_file,
                  mpc, queueVars, workerVars, reporterVars, fresh, framerVars >>

\* message_queue.put(message).
Put(c) ==
  /\ Alive /\ cpc[c] = "put"
  /\ message_queue' = Append(message_queue, msg[c])
  /\ enq' = Append(enq, msg[c])
  /\ atPut' = Append(message_queue, msg[c])
  /\ cpc' = [cpc EXCEPT ![c] = "save_open"]
  /\ UNCHANGED << queue_file, mpc, aggVars, workerVars, reporterVars,
                  framerVars >>

\* save_persistent_queue in listen_to_stream: open(QUEUE_FILE, "w").
SaveOpen(c) ==
  /\ Alive /\ cpc[c] = "save_open"
  /\ queue_file' = Truncated
  /\ cpc' = [cpc EXCEPT ![c] = "save_dump"]
  /\ UNCHANGED << mpc, aggVars, queueVars, workerVars, reporterVars,
                  framerVars >>

\* save_persistent_queue in listen_to_stream: json.dump and close; then
\* buffer = "" and the next line.
SaveDump(c) ==
  /\ Alive /\ cpc[c] = "save_dump"
  /\ queue_file' \in DumpResults(queue_file, message_queue)
  /\ buffer' = [buffer EXCEPT ![c] = << >>]
  /\ cpc' = [cpc EXCEPT ![c] = "stream"]
  /\ UNCHANGED << since, handed, mpc, aggVars, queueVars, workerVars,
                  reporterVars >>

\* ------------------------------------------------------- delivery worker
\* Mutant of Get: takes the newest message instead of the oldest.
GetNewest ==
  /\ Alive /\ wpc = "get"
  /\ message_queue # << >>
  /\ wmsg' = message_queue[Len(message_queue)]
  /\ message_queue' = SubSeq(message_queue, 1, Len(message_queue) - 1)
  /\ wpc' = "send"
  /\ UNCHANGED << enq, atPut, sent, tried, queue_file, mpc, cpc, aggVars,
                  reporterVars, framerVars >>

\* message = message_queue.get(): blocks while the queue is empty.
Get ==
  /\ Alive /\ wpc = "get"
  /\ message_queue # << >>
  /\ wmsg' = Head(message_queue)
  /\ message_queue' = Tail(message_queue)
  /\ wpc' = "send"
  /\ UNCHANGED << enq, atPut, sent, tried, queue_file, mpc, cpc, aggVars,
                  reporterVars, framerVars >>

\* send_telegram_message(message) returns True.
SendOk ==
  /\ Alive /\ wpc = "send"
  /\ sent' = Append(sent, wmsg)
  /\ tried' = [msg |-> wmsg, nsent |-> Len(sent), ok |-> TRUE]
  /\ wmsg' = NoMessage
  /\ wpc' = "get"
  /\ UNCHANGED << queue_file, mpc, cpc, aggVars, queueVars, reporterVars,
                  framerVars >>

\* send_telegram_message(message) returns False: RequestException caught.
SendFail ==
  /\ Alive /\ wpc = "send"
  /\ tried' = [msg |-> wmsg, nsent |-> Len(sent), ok |-> FALSE]
  /\ wpc' = "retry_sleep"
  /\ UNCHANGED << wmsg, sent, queue_file, mpc, cpc, aggVars, queueVars,
                  reporterVars, framerVars >>

\* Mutant of RetryWake: after the sleep the worker gives the message up and
\* goes on to the next one.
RetryWakeNext ==
  /\ Alive /\ wpc = "retry_sleep"
  /\ wpc' = "get"
  /\ wmsg' = NoMessage
  /\ UNCHANGED << sent, tried, queue_file, mpc, cpc, aggVars, queueVars,
                  reporterVars, framerVars >>

\* time.sleep(10) of the retry loop returns.
RetryWake ==
  /\ Alive /\ wpc = "retry_sleep"
  /\ wpc' = "send"
  /\ UNCHANGED << wmsg, sent, tried, queue_file, mpc, cpc, aggVars, queueVars,
                  reporterVars, framerVars >>

\* -------------------------------------------------------------- reporter
\* log_alert_counts: open(ALERT_LOG_FILE, "a") or a write raises; nothing in
\* periodic_tasks catches it and the thread ends.
LogFail ==
  /\ Alive /\ rpc = "log"
  /\ rcam = 1 /\ rfield = 1
  /\ rpc' = "dead"
  /\ UNCHANGED << rcam, rfield, rblock, alert_log, queue_file, mpc, cpc, aggVars,
                  queueVars, workerVars, framerVars >>

\* log_alert_counts: one file.write(f"...{data[key]}") of one camera, which
\* reads one counter; after the last one the block is in the file and
\* reset_alert_counts begins.
LogRead ==
  /\ Alive /\ rpc = "log"
  /\ LET c == CamOrder[rcam]
         block == IF LogOrder[rfield] = "simple_count"
                  THEN [rblock EXCEPT ![c] = camera_alerts[c].simple_count]
                  ELSE rblock
     IN IF rfield < Len(LogOrder)
        THEN /\ rblock' = block
             /\ rfield' = rfield + 1
             /\ UNCHANGED << rcam, rpc, alert_log >>
        ELSE IF rcam < Len(CamOrder)
        THEN /\ rblock' = block
             /\ rfield' = 1
             /\ rcam' = rcam + 1
             /\ UNCHANGED << rpc, alert_log >>
        ELSE /\ alert_log' = [x \in Cameras |-> alert_log[x] + block[x]]
             /\ rblock' = EmptyBlock
             /\ rfield' = 1
             /\ rcam' = 1
             /\ rpc' = "reset"
  /\ UNCHANGED << queue_file, mpc, cpc, aggVars, queueVars, workerVars,
                  framerVars >>

\* reset_alert_counts: one assignment to one field of one camera; after the
\* last one the reporter sleeps RESET_INTERVAL.
Reset ==
  /\ Alive /\ rpc = "reset"
  /\ LET c == CamOrder[rcam]
     IN /\ camera_alerts' =
             [camera_alerts EXCEPT ![c][ResetOrder[rfield]] = ResetValue(rfield)]
        /\ clean' = [clean EXCEPT ![c] = FALSE]
        /\ pre' = [pre EXCEPT ![c] = InitialAlerts]
        /\ prev' = [prev EXCEPT ![c] = None]
        /\ lastInc' = [lastInc EXCEPT ![c] = [w \in 1..Len(Windows) |-> None]]
        /\ fresh' = [fresh EXCEPT ![c] = IF rfield = Len(ResetOrder)
                                          THEN "reset" ELSE "no"]
  /\ IF rfield < Len(ResetOrder)
     THEN /\ rfield' = rfield + 1
          /\ UNCHANGED << rcam, rpc >>
     ELSE IF rcam < Len(CamOrder)
     THEN /\ rfield' = 1
          /\ rcam' = rcam + 1
          /\ rpc' = rpc
     ELSE /\ rfield' = 1
          /\ rcam' = 1
          /\ rpc' = "sleep"
  /\ UNCHANGED << rblock, alert_log, now, tmp, win, msg, clock, events,
                  queue_file, mpc, cpc, queueVars, workerVars, framerVars >>

\* time.sleep(RESET_INTERVAL) returns.
ReportWake ==
  /\ Alive /\ rpc = "sleep"
  /\ rpc' = "log"
  /\ UNCHANGED << rcam, rfield, rblock, alert_log, queue_file, mpc, cpc, aggVars,
                  queueVars, workerVars, framerVars >>

\* ---------------------------------------------------------- specification
Next ==
  \/ Load
  \/ StartThreads
  \/ Interrupt
  \/ ShutOpen
  \/ ShutDump
  \/ Exit
  \/ \E c \in Cameras : Connect(c)
  \/ \E c \in Cameras : ConnectFail(c)
  \/ \E c \in Cameras : StreamError(c)
  \/ \E c \in Cameras : StreamEnd(c)
  \/ \E c \in Cameras : BackoffWake(c)
  \/ \E c \in Cameras : \E l \in Lines : Line(c, l)
  \/ \E c \in Cameras : \E l \in Lines : BadLine(c, l)
  \/ \E c \in Cameras : BoundaryNoEvent(c)
  \/ \E c \in Cameras : ParseBegin(c)
  \/ \E c \in Cameras : IncSimple(c)
  \/ \E c \in Cameras : GapTest(c)
  \/ \E c \in Cameras : GapCompare(c)
  \/ \E c \in Cameras : GapWrite(c)
  \/ \E c \in Cameras : GapSetLast(c)
  \/ \E c \in Cameras : Put(c)
  \/ \E c \in Cameras : SaveOpen(c)
  \/ \E c \in Cameras : SaveDump(c)
  \/ Get
  \/ SendOk
  \/ SendFail
  \/ RetryWake
  \/ LogFail
  \/ LogRead
  \/ Reset
  \/ ReportWake

Spec == Init /\ [][Next]_vars

\* The counting part of parse_event is in progress for camera c.
InCount(c) ==
  cpc[c] \in {"simple_write", "gap_test", "gap_elapsed", "gap_write", "gap_last"}

\* put and save_persistent_queue of listen_to_stream are in progress for c.
InEnqueue(c) == cpc[c] \in {"put", "save_open", "save_dump"}

CountStep(c) ==
  IncSimple(c) \/ GapTest(c) \/ GapCompare(c) \/ GapWrite(c) \/ GapSetLast(c)

EnqueueStep(c) == Put(c) \/ SaveOpen(c) \/ SaveDump(c)

\* The aggregator: every interleaving of one camera worker's counting with
\* the reporter's reads and writes of that camera's entry. Only camera
\* AggCamera sees motion (the cameras share no counter), and the steps that
\* do not touch its entry are not interleaved with the counting: an enqueue
\* in progress and the reporter's steps on another camera run to their end
\* first, and the delivery worker and Ctrl+C are not scheduled. The run
\* starts without a queue file.
AggCamera == CamOrder[1]

InitAgg == Init /\ queue_file.st = "absent"

NoEnqueue == \A c \in Cameras : ~InEnqueue(c)

Calm ==
  /\ NoEnqueue
  /\ rpc \in {"log", "reset"} => CamOrder[rcam] = AggCamera

NextAgg ==
  \/ Load
  \/ StartThreads
  \/ EnqueueStep(AggCamera)
  \/ Calm /\ Connect(AggCamera)
  \/ Calm /\ ParseBegin(AggCamera)
  \/ Calm /\ IncSimple(AggCamera)
  \/ Calm /\ GapTest(AggCamera)
  \/ Calm /\ GapCompare(AggCamera)
  \/ Calm /\ GapWrite(AggCamera)
  \/ Calm /\ GapSetLast(AggCamera)
  \/ NoEnqueue /\ LogFail
  \/ NoEnqueue /\ LogRead
  \/ NoEnqueue /\ Reset
  \/ NoEnqueue /\ ReportWake

SpecAgg == InitAgg /\ [][NextAgg]_vars

\* The delivery queue: every interleaving of the camera workers' enqueues
\* with the delivery worker and with Ctrl+C. The steps that do not touch
\* the queue or its file are not interleaved with them: the reporter's
\* firing at start runs to its end first and the reporter then sleeps, and
\* the counting of parse_event runs to its end once begun. Events are a
\* minute apart.
Quiet == rpc = "sleep" /\ \A c \in Cameras : ~InCount(c)

NextQueue ==
  \/ Load
  \/ StartThreads
  \/ LogRead
  \/ Reset
  \/ rpc = "sleep" /\ \E c \in Cameras : CountStep(c)
  \/ Quiet /\ \E c \in Cameras : Connect(c)
  \/ Quiet /\ \E c \in Cameras : ParseBeginAt(c, Windows[3])
  \/ Quiet /\ \E c \in Cameras : Put(c)
  \/ Quiet /\ \E c \in Cameras : SaveOpen(c)
  \/ Quiet /\ \E c \in Cameras : SaveDump(c)
  \/ Quiet /\ Get
  \/ Quiet /\ SendOk
  \/ Quiet /\ SendFail
  \/ Quiet /\ RetryWake
  \/ Quiet /\ Interrupt
  \/ Quiet /\ ShutOpen
  \/ Quiet /\ ShutDump
  \/ Quiet /\ Exit

SpecQueue == Init /\ [][NextQueue]_vars

\* One process run that is not interrupted, under the fairness the claim on
\* delivery assumes: every thread keeps being scheduled (weak fairness of
\* each program step), and a send that is tried again and again eventually
\* succeeds (strong fairness of SendOk). Connecting and the arrival of
\* events are the environment's and carry no fairness. The events come from
\* one camera: the order in which two cameras enqueue is SpecQueue's.
NextQueueRun ==
  \/ Load
  \/ StartThreads
  \/ LogRead
  \/ Reset
  \/ rpc = "sleep" /\ \E c \in Cameras : CountStep(c)
  \/ Quiet /\ \E c \in Cameras : Connect(c)
  \/ Quiet /\ ParseBeginAt(AggCamera, Windows[3])
  \/ Quiet /\ \E c \in Cameras : EnqueueStep(c)
  \/ Quiet /\ Get
  \/ Quiet /\ SendOk
  \/ Quiet /\ SendFail
  \/ Quiet /\ RetryWake

FairQueueRun ==
  /\ WF_vars(Load)
  /\ WF_vars(StartThreads)
  /\ WF_vars(LogRead)
  /\ WF_vars(Reset)
  /\ WF_vars(rpc = "sleep" /\ \E c \in Cameras : CountStep(c))
  /\ WF_vars(Quiet /\ \E c \in Cameras : EnqueueStep(c))
  /\ WF_vars(Quiet /\ Get)
  /\ WF_vars(Quiet /\ RetryWake)
  /\ SF_vars(Quiet /\ SendOk)

SpecQueueLive == Init /\ [][NextQueueRun]_vars /\ FairQueueRun

\* One connection worker, line by line: connecting, its failures and the
\* backoff, the framing of the lines received, and what becomes of each
\* record. The reporter's firing at start is not interleaved with the
\* worker: the worker runs before it begins or after it has ended, and the
\* reporter does not run while a record is being counted or enqueued.
\* Events are a minute apart; the delivery worker and Ctrl+C are not
\* scheduled, and the run starts without a queue file.
ReporterIdle == rpc = "sleep" \/ (rpc = "log" /\ rcam = 1 /\ rfield = 1)

WorkerIdle == \A c \in Cameras : ~InCount(c) /\ ~InEnqueue(c)

NextStream ==
  \/ Load
  \/ StartThreads
  \/ WorkerIdle /\ LogRead
  \/ WorkerIdle /\ Reset
  \/ ReporterIdle /\ Connect(AggCamera)
  \/ ReporterIdle /\ ConnectFail(AggCamera)
  \/ ReporterIdle /\ StreamError(AggCamera)
  \/ ReporterIdle /\ StreamEnd(AggCamera)
  \/ ReporterIdle /\ BackoffWake(AggCamera)
  \/ ReporterIdle /\ \E l \in Lines : Line(AggCamera, l)
  \/ ReporterIdle /\ \E l \in Lines : BadLine(AggCamera, l)
  \/ ReporterIdle /\ BoundaryNoEvent(AggCamera)
  \/ ReporterIdle /\ ParseBeginAt(AggCamera, Windows[3])
  \/ ReporterIdle /\ IncSimple(AggCamera)
  \/ ReporterIdle /\ GapTest(AggCamera)
  \/ ReporterIdle /\ GapCompare(AggCamera)
  \/ ReporterIdle /\ GapWrite(AggCamera)
  \/ ReporterIdle /\ GapSetLast(AggCamera)
  \/ ReporterIdle /\ Put(AggCamera)
  \/ ReporterIdle /\ SaveOpen(AggCamera)
  \/ ReporterIdle /\ SaveDump(AggCamera)

SpecStream == InitAgg /\ [][NextStream]_vars

\* ------------------------------------------------------------ the claims
Range(q) == {q[i] : i \in 1..Len(q)}

\* Every message a run can hold.
Messages ==
  { MessageOf(n) : n \in 1..MaxEvents }
  \cup UNION { Range(LoadedMessages(f)) : f \in StartFiles }

\* The messages enqueued and not yet sent successfully, in enqueue order.
Unsent == SubSeq(enq, Len(sent) + 1, Len(enq))

\* No save_persistent_queue is between its open and its dump.
NoSaveInProgress ==
  /\ \A c \in Cameras : cpc[c] # "save_dump"
  /\ mpc # "shut_dump"

\* C1: crash safety of the delivery queue. While the process runs (before
\* any Ctrl+C) and no enqueue (put followed by the snapshot write) is
\* part-way through, every message enqueued and not yet sent successfully,
\* the one the delivery worker holds included, is in the queue file.
C1_CrashSafe ==
  (NoEnqueue /\ mpc = "running") =>
    \A m \in Range(Unsent) :
      queue_file.st = "array" /\ JsonString(m) \in Range(queue_file.msgs)

\* C2: graceful shutdown. The snapshot the KeyboardInterrupt handler writes
\* holds every message not yet sent successfully, in FIFO order, the message
\* the delivery worker is sending or retrying included.
C2_ShutdownSnapshot ==
  [][(mpc = "shut_dump" /\ mpc' = "exit_wait") => queue_file' = ArrayFile(Unsent)]_vars

\* C3: delivery order within one run. Every send attempt is for the first
\* message, in enqueue order, that has not been sent successfully (none for
\* a later message before the head is sent, the same message again after a
\* failure); the successful sends are a prefix of the enqueue order, each
\* message at most once.
C3_DeliveryOrder ==
  /\ Len(sent) <= Len(enq)
  /\ sent = SubSeq(enq, 1, Len(sent))
  /\ \A i, j \in 1..Len(sent) : i # j => sent[i] # sent[j]
  /\ tried.msg # NoMessage => tried.msg = enq[tried.nsent + 1]
  /\ wmsg # NoMessage => wmsg = enq[Len(sent) + 1]

\* C3 witness: of three messages, one loaded at start and two from the
\* camera workers, the first two have been sent in order and the attempt for
\* the third has failed: the worker holds it for the retry.
C3_Witness ==
  /\ Len(enq) = 3 /\ Len(sent) = 2
  /\ sent = SubSeq(enq, 1, 2)
  /\ wpc = "retry_sleep" /\ wmsg = enq[3]
  /\ tried = [msg |-> enq[3], nsent |-> 2, ok |-> FALSE]

\* C4: liveness of delivery within one run. Under FairQueueRun, every
\* message in the delivery queue, put there by a camera worker or by the
\* load at start, is eventually sent successfully.
C4_EventuallySent ==
  \A m \in Messages : (m \in Range(message_queue)) ~> (m \in Range(sent))

\* C4 witness: a message of a camera worker has just been sent, after the
\* message loaded at start, and nothing is left in the delivery queue.
C4_Witness ==
  /\ message_queue = << >>
  /\ Len(sent) >= 2
  /\ sent[1] \notin { MessageOf(n) : n \in 1..MaxEvents }
  /\ sent[Len(sent)] \in { MessageOf(n) : n \in 1..MaxEvents }
  /\ tried.ok /\ tried.msg = sent[Len(sent)]

\* C5: enqueue is atomic with its snapshot write. Whenever no enqueue and no
\* other snapshot write is in progress, and a camera worker has enqueued,
\* the queue file holds the queue as the latest put left it.
C5_EnqueueAtomic ==
  (NoEnqueue /\ NoSaveInProgress /\ mpc = "running" /\ atPut # << >>) =>
    queue_file = ArrayFile(atPut)

\* The reporter is part-way through its reads (log_alert_counts) or its
\* writes (reset_alert_counts) of camera c's entry.
ReporterIn(c) ==
  /\ rpc \in {"log", "reset"}
  /\ CamOrder[rcam] = c
  /\ rfield > 1

\* C6: counting and reset are mutually exclusive per camera. The reporter is
\* never part-way through its reads or its writes of a camera's entry while
\* parse_event is part-way through its increments for the same camera.
C6_MutualExclusion == \A c \in Cameras : ~(InCount(c) /\ ReporterIn(c))

\* C7: no qualifying event is lost from the reports. Between two firings of
\* the reporter, and with no simple_count += 1 in progress, for each camera
\* the `immediate` values written to the log so far plus the current
\* simple_count equal the number of qualifying events processed.
C7_NoEventLost ==
  \A c \in Cameras :
    (rpc = "sleep" /\ cpc[c] # "simple_write") =>
      alert_log[c] + camera_alerts[c].simple_count = events[c]

\* parse_event has finished counting an event of camera c, at least 60 s
\* after the camera's previous event, with no reset write in between or since.
SpacedEventDone(c) ==
  /\ cpc[c] = "put"
  /\ clean[c]
  /\ prev[c] # None
  /\ now[c] - prev[c] >= Windows[3]

\* C8: an event at least 60 s after the previous one of its camera, with no
\* reset in between, raises each of the four counters by exactly 1, whatever
\* the size of the gap.
C8_SpacedEvents ==
  \A c \in Cameras :
    SpacedEventDone(c) =>
      /\ camera_alerts[c].simple_count = pre[c].simple_count + 1
      /\ \A w \in 1..Len(Windows) :
           camera_alerts[c][GapKey(w)] = pre[c][GapKey(w)] + 1

\* A step of reset_alert_counts.
IsResetStep == rpc = "reset" /\ << rcam, rfield, rpc >> # << rcam', rfield', rpc' >>

\* C9: gap suppression. In every step that is not a reset write, no gapped
\* counter decreases; two consecutive increments of a gapped counter with no
\* reset write to the camera in between are at least its threshold apart;
\* and the write of simple_count += 1, with no reset write since the event
\* began, raises simple_count by exactly 1.
C9_GapSuppression ==
  [][\A c \in Cameras :
       /\ ~IsResetStep =>
            \A w \in 1..Len(Windows) :
              camera_alerts'[c][GapKey(w)] >= camera_alerts[c][GapKey(w)]
       /\ \A w \in 1..Len(Windows) :
            (lastInc[c][w] # None /\ lastInc'[c][w] # None
               /\ camera_alerts'[c][GapKey(w)] # camera_alerts[c][GapKey(w)])
              => lastInc'[c][w] - lastInc[c][w] >= Windows[w]
       /\ (cpc[c] = "simple_write" /\ cpc'[c] # "simple_write" /\ clean[c])
            => camera_alerts'[c].simple_count = camera_alerts[c].simple_count + 1
    ]_vars

\* C9 witness: an event 9 s after the previous one of its camera, with no
\* reset write in between, has been counted: simple_count is one higher and
\* no gapped counter has moved.
C9_Witness ==
  \E c \in Cameras :
    /\ cpc[c] = "put" /\ clean[c]
    /\ prev[c] # None /\ now[c] - prev[c] = 9
    /\ camera_alerts[c].simple_count = pre[c].simple_count + 1
    /\ \A w \in 1..Len(Windows) :
         /\ camera_alerts[c][GapKey(w)] = pre[c][GapKey(w)]
         /\ camera_alerts[c][GapKey(w)] >= 1

\* C10: first occurrence at process start. Once the first qualifying event
\* of a camera has been processed, the worker is still running, and if no
\* reset write came since the event began, all four counters are one higher
\* and the three last_alert_time fields hold the event time.
C10_FirstEvent ==
  \A c \in Cameras :
    (events[c] = 1 /\ ~InCount(c)) =>
      /\ cpc[c] # "dead"
      /\ clean[c] =>
           /\ camera_alerts[c].simple_count = pre[c].simple_count + 1
           /\ \A w \in 1..Len(Windows) :
                /\ camera_alerts[c][GapKey(w)] = pre[c][GapKey(w)] + 1
                /\ camera_alerts[c][LastKey(w)] = now[c]

\* C11: no carryover across a reset. When reset_alert_counts has written all
\* the fields of a camera, the next qualifying event of the camera begins
\* after that, and no reset write comes while it is counted, then after the
\* event the four counters are 1 and the three last_alert_time fields hold
\* the event time.
C11_NoCarryover ==
  \A c \in Cameras :
    (cpc[c] = "put" /\ fresh[c] = "event") =>
      /\ camera_alerts[c].simple_count = 1
      /\ camera_alerts[c].gap_10_sec = 1
      /\ camera_alerts[c].gap_30_sec = 1
      /\ camera_alerts[c].gap_60_sec = 1
      /\ camera_alerts[c].last_alert_time_gap_10_sec = now[c]
      /\ camera_alerts[c].last_alert_time_gap_30_sec = now[c]
      /\ camera_alerts[c].last_alert_time_gap_60_sec = now[c]


\* C12: a firing of the reporter that leaves the log write goes on to the
\* reset of the counters: when the write to the aggregate log fails the
\* counters are still reset in the same firing (and the reporter lives on to
\* fire again).
C12_ResetAfterLogFailure ==
  [][(rpc = "log" /\ rpc' # "log") => rpc' = "reset"]_vars


\* C13: no connection worker ever reaches a terminated state: whatever is
\* raised while connecting, reading, framing, extracting or enqueuing, the
\* worker stays in its connect/stream/backoff cycle.
C13_WorkerNeverTerminates ==
  \A c \in Cameras : cpc[c] # "dead"


\* C17: a connection worker that has been connecting or streaming enters
\* Connecting again only from Backoff: each time it leaves Connecting or
\* Streaming (connect failure, read failure, the stream ending) the 10 second
\* sleep comes before the next connection attempt.
C17_BackoffBeforeReconnect ==
  [][\A c \in Cameras :
       (cpc[c] # "connect" /\ cpc'[c] = "connect")
         => cpc[c] \in {"unstarted", "backoff"}]_vars


\* C19: the record handed to parse_event is the concatenation of all the
\* lines received since the previous boundary line, the empty and the
\* whitespace-only ones included.
C19_EveryLineAppended ==
  \A c \in Cameras : handed[c] # << >> => handed[c] = since[c]


\* C16: on one connection, once a received line has been dealt with, a line
\* holding the boundary marker has caused one hand-off of the buffer to
\* parse_event and left the buffer empty, and a line without the marker has
\* caused no hand-off.
C16_Framer ==
  \A c \in Cameras :
    (since[c] # << >> /\ cpc[c] \in {"stream", "dead"})
      => LET last == since[c][Len(since[c])]
         IN IF HasMarker(last)
            THEN handed[c] # << >> /\ buffer[c] = << >>
            ELSE handed[c] = << >>


\* A step in which listen_to_stream of camera c calls parse_event(buffer).
HandsOver(c) ==
  /\ cpc[c] = "stream"
  /\ handed'[c] # << >>
  /\ << buffer[c], since[c], handed[c] >> # << buffer'[c], since'[c], handed'[c] >>

\* C18: a record handed to parse_event that does not match the pattern,
\* whose data json cannot decode, or whose (code, action) is not
\* (VideoMotion, Start) gives no message, changes no counter and no last
\* alert time of any camera, and nothing is enqueued or written to the queue
\* file; a message is produced only for a VideoMotion/Start record.
C18_NonQualifyingNoEffect ==
  [][\A c \in Cameras :
       /\ (HandsOver(c) /\ Outcome(handed'[c]) # "motion")
            => /\ cpc'[c] = "stream"
               /\ UNCHANGED << camera_alerts, msg, message_queue, enq, queue_file >>
       /\ msg'[c] # msg[c]
            => HandsOver(c) /\ Outcome(handed'[c]) = "motion"
    ]_vars

\* C18 witness: after an event of the camera was counted and its message
\* enqueued and saved, a record with another code or action was handed over
\* and the worker is back at the stream with the counters, the queue and the
\* queue file as the event left them.
C18_Witness ==
  \E c \in Cameras :
    /\ cpc[c] = "stream"
    /\ handed[c] # << >> /\ Outcome(handed[c]) = "other"
    /\ camera_alerts[c].simple_count = 1
    /\ enq = << msg[c] >> /\ message_queue = enq
    /\ queue_file = ArrayFile(enq)


\* C20: whenever the reporter sleeps and a camera's worker is between two
\* records, the camera's counters are ordered:
\* gap_60_sec <= gap_30_sec <= gap_10_sec <= simple_count, however the
\* camera's counting was interleaved with the reporter's reset.
C20_CounterOrdering ==
  \A c \in Cameras :
    (rpc = "sleep" /\ cpc[c] = "stream")
      => /\ camera_alerts[c].gap_60_sec <= camera_alerts[c].gap_30_sec
         /\ camera_alerts[c].gap_30_sec <= camera_alerts[c].gap_10_sec
         /\ camera_alerts[c].gap_10_sec <= camera_alerts[c].simple_count


\* C14: startup recovery. The load of a well-formed queue file leaves in
\* the in-memory queue the messages of the file in the file's order, and
\* they are the queue that was saved: whatever queue a run saved, loading
\* the file gives back the same sequence of messages. A message put later
\* goes behind the messages already in the queue.
C14_StartupRecovery ==
  [][/\ (mpc = "load" /\ mpc' # "load" /\ queue_file.st = "array")
          => /\ message_queue' = JsonLoad(queue_file.msgs)
             /\ \A q \in SavedQueues :
                  queue_file = ArrayFile(q) => message_queue' = q
     /\ (mpc # "load" /\ Len(message_queue') > Len(message_queue))
          => SubSeq(message_queue', 1, Len(message_queue)) = message_queue
    ]_vars


\* C15: corrupt queue file at startup. When the file exists and does not
\* hold a well-formed array of message strings (json cannot decode it, or
\* it holds JSON that is not such an array), load_persistent_queue leaves
\* the in-memory queue empty and main goes on to start the workers.
C15_CorruptSnapshot ==
  [][(mpc = "load" /\ mpc' # "load" /\ queue_file.st \notin {"absent", "array"})
       => message_queue' = << >> /\ mpc' = "start"]_vars

====
